---- MODULE Spec2Model ----
(***************************************************************************)
(* Dungeon map generator of RL-rust: src/src/rect.rs (Room / Rect) and     *)
(* src/src/map.rs (Map, its construction primitives, the three generation  *)
(* entry points and the border oracle of the test module).                 *)
(*                                                                         *)
(* Map::new and Map::new_map_all_open are modelled at their real size      *)
(* (80 x 50, Rect::new(0, 0, 78, 48)): both are deterministic.             *)
(* Map::new_map_rooms_and_corridors draws every candidate room from the    *)
(* random source, so it is explored for every sequence of draws on a       *)
(* scaled grid: GEN_WIDTH x GEN_HEIGHT stands for the literal (80, 50) of  *)
(* map.rs:194, and MAX_ROOMS, MIN_SIZE, MAX_SIZE for the constants of      *)
(* map.rs:196-198 (30, 6, 10).  The arithmetic of the algorithm is kept    *)
(* as written, only the numbers are smaller.                               *)
(***************************************************************************)
EXTENDS Integers, Sequences, FiniteSets, TLC

VARIABLES
    map,        \* the Map under construction (record of the struct's fields)
    pc,         \* position of the running entry point
    algo,       \* which entry point is running / has returned
    attempts,   \* iterations of `for _ in 0..MAX_ROOMS` completed so far
    new_room,   \* the accepted candidate between carving and push
    coin,       \* rng.range(0, 2) of the connection being dug
    args,       \* inputs of the primitive called (specifications of single calls)
    ret         \* its result

vars == <<map, pc, algo, attempts, new_room, coin, args, ret>>

----------------------------------------------------------------------------
(* Bounds of the exploration *)

GEN_WIDTH == 10     \* new_with_dimensions(80, 50, ..), scaled
GEN_HEIGHT == 9
MAX_ROOMS == 3      \* const MAX_ROOMS: i32 = 30, scaled
MIN_SIZE == 4       \* const MIN_SIZE: i32 = 6, scaled
MAX_SIZE == 5       \* const MAX_SIZE: i32 = 10, scaled

\* new_depth: only stored in the Map, never read by the generation
Depths == {0}

----------------------------------------------------------------------------
(* TileType *)

Wall == "Wall"
Floor == "Floor"
TileType == {Wall, Floor}

----------------------------------------------------------------------------
(* rect.rs *)

Rect_new(x, y, w, h) == [x1 |-> x, y1 |-> y, x2 |-> x + w, y2 |-> y + h]

NoRoom == Rect_new(0, 0, 0, 0)

\* i32 `/` truncates toward zero
I32Div(a, b) == IF a >= 0 THEN a \div b ELSE -((-a) \div b)

center(r) == <<I32Div(r.x1 + r.x2, 2), I32Div(r.y1 + r.y2, 2)>>

\* spaces with both ranges exclusive of the far edge (`..` for `..=`)
spaces_exclusive(r) ==
    LET w == IF r.x2 - 1 > r.x1 THEN r.x2 - 1 - r.x1 ELSE 0
        h == IF r.y2 - 1 > r.y1 THEN r.y2 - 1 - r.y1 ELSE 0
    IN  [k \in 1 .. (w * h) |->
            <<r.x1 + 1 + ((k - 1) % w), r.y1 + 1 + ((k - 1) \div w)>>]

\* the Vec pushed by the two nested inclusive ranges, in push order
spaces(r) ==
    LET w == IF r.x2 > r.x1 THEN r.x2 - r.x1 ELSE 0
        h == IF r.y2 > r.y1 THEN r.y2 - r.y1 ELSE 0
    IN  [k \in 1 .. (w * h) |->
            <<r.x1 + 1 + ((k - 1) % w), r.y1 + 1 + ((k - 1) \div w)>>]

\* intersect as its doc comment reads: true if the rooms overlap
intersect_overlaps(self, other) ==
    LET _own_spaces == spaces(self)
        _other_spaces == spaces(other)
    IN  Cardinality({k \in DOMAIN _own_spaces :
                        \E j \in DOMAIN _other_spaces :
                            _other_spaces[j] = _own_spaces[k]}) # 0

\* _own_spaces.iter().filter(|x| _other_spaces.contains(x)).count() == 0
intersect(self, other) ==
    LET _own_spaces == spaces(self)
        _other_spaces == spaces(other)
    IN  Cardinality({k \in DOMAIN _own_spaces :
                        \E j \in DOMAIN _other_spaces :
                            _other_spaces[j] = _own_spaces[k]}) = 0

----------------------------------------------------------------------------
(* map.rs: the Map and its primitives *)

Map_new(new_depth) ==
    [tiles          |-> [i \in 0 .. (80 * 50 - 1) |-> Wall],
     rooms          |-> <<>>,
     width          |-> 80,
     height         |-> 50,
     revealed_tiles |-> [i \in 0 .. (80 * 50 - 1) |-> FALSE],
     visible_tiles  |-> [i \in 0 .. (80 * 50 - 1) |-> FALSE],
     depth          |-> new_depth]

new_with_dimensions(w, h, new_depth) ==
    [tiles          |-> [i \in 0 .. (w * h - 1) |-> Wall],
     rooms          |-> <<>>,
     width          |-> w,
     height         |-> h,
     revealed_tiles |-> [i \in 0 .. (w * h - 1) |-> FALSE],
     visible_tiles  |-> [i \in 0 .. (w * h - 1) |-> FALSE],
     depth          |-> new_depth]

\* the state before any entry point has run: no Map exists yet
NoMap == new_with_dimensions(0, 0, 0)

\* the index computed with the height as the row stride
xy_idx_by_height(m, x, y) == (y * m.height) + x

\* (y as usize * self.width as usize) + x as usize.  Every caller modelled
\* here passes x >= 0 and y >= 0, for which the casts keep the value and the
\* sum stays far below 2^64.
xy_idx(m, x, y) == (y * m.width) + x

\* apply_room_to_map rebuilding the grid around the room
apply_room_to_map_reset(m, room) ==
    LET cells == spaces(room)
        idxs == {(cells[k][2] * m.width) + cells[k][1] : k \in DOMAIN cells}
    IN  [m EXCEPT !.tiles = [i \in DOMAIN m.tiles |->
                                IF i \in idxs THEN Floor ELSE Wall]]

\* tiles[idx] = Floor for every (x, y) of room.spaces(); an index outside
\* the Vec would panic (InBounds is what the callers rely on)
RoomIndices(m, room) ==
    LET cells == spaces(room)
    IN  {xy_idx(m, cells[k][1], cells[k][2]) : k \in DOMAIN cells}

apply_room_to_map(m, room) ==
    LET idxs == RoomIndices(m, room)
    IN  [m EXCEPT !.tiles = [i \in DOMAIN m.tiles |->
                                IF i \in idxs THEN Floor ELSE m.tiles[i]]]

Min(a, b) == IF a < b THEN a ELSE b
Max(a, b) == IF a > b THEN a ELSE b

apply_horizontal_tunnel(m, x1, x2, y) ==
    LET dug == {xy_idx(m, x, y) : x \in Min(x1, x2) .. Max(x1, x2)}
    IN  [m EXCEPT !.tiles = [i \in DOMAIN m.tiles |->
            IF i \in dug /\ i > 0 /\ i < m.width * m.height
            THEN Floor ELSE m.tiles[i]]]

apply_vertical_tunnel(m, y1, y2, x) ==
    LET dug == {xy_idx(m, x, y) : y \in Min(y1, y2) .. Max(y1, y2)}
    IN  [m EXCEPT !.tiles = [i \in DOMAIN m.tiles |->
            IF i \in dug /\ i > 0 /\ i < m.width * m.height
            THEN Floor ELSE m.tiles[i]]]

----------------------------------------------------------------------------
(* map.rs, mod tests: the border oracle *)

\* borders_check without the `pt % width == 0` disjunct
borders_check_no_left(m) ==
    LET len == m.width * m.height
        picked == {pt \in DOMAIN m.tiles :
                        \/ pt < m.width
                        \/ pt > len - m.width
                        \/ pt % m.width = m.width - 1}
    IN  IF \A pt \in picked : m.tiles[pt] = Wall THEN "Ok" ELSE "Err"

\* the tiles kept by the filter must all be Wall
borders_check(m) ==
    LET len == m.width * m.height
        picked == {pt \in DOMAIN m.tiles :
                        \/ pt < m.width
                        \/ pt > len - m.width
                        \/ pt % m.width = 0
                        \/ pt % m.width = m.width - 1}
    IN  IF \A pt \in picked : m.tiles[pt] = Wall THEN "Ok" ELSE "Err"

----------------------------------------------------------------------------
(* the random source (rltk::RandomNumberGenerator) *)

\* range(min, max): min inclusive, max exclusive
rng_range(lo, hi) == lo .. (hi - 1)

\* roll_dice(1, die_type): one die with faces 1..die_type
roll_dice_1(die_type) == 1 .. die_type

----------------------------------------------------------------------------
(* map.rs: new_map_rooms_and_corridors, one loop iteration *)

\* line 203 / 204: rng.range(MIN_SIZE, MAX_SIZE)
draw_size == rng_range(MIN_SIZE, MAX_SIZE)

\* line 205 without the margin: roll_dice(1, map.width - w) - 1
draw_x_no_margin(m, w) == {d - 1 : d \in roll_dice_1(m.width - w)}

\* line 205: rng.roll_dice(1, map.width - w - 1) - 1
draw_x(m, w) == {d - 1 : d \in roll_dice_1(m.width - w - 1)}

\* line 206: rng.roll_dice(1, map.height - h - 1) - 1
draw_y(m, h) == {d - 1 : d \in roll_dice_1(m.height - h - 1)}

\* lines 203-207: every Rect the four draws can produce on map m
Candidates(m) ==
    UNION {UNION {{Rect_new(x, y, w, h) : x \in draw_x(m, w), y \in draw_y(m, h)} :
                    w \in draw_size} :
            h \in draw_size}

\* the check loop with `ok` starting false and set by an overlapping room
candidate_ok_needs_overlap(m, cand) ==
    \E k \in DOMAIN m.rooms : ~intersect(cand, m.rooms[k])

\* lines 208-213: ok stays true unless new_room.intersect(other_room) for
\* some room already in map.rooms
candidate_ok(m, cand) ==
    \A k \in DOMAIN m.rooms : ~intersect(cand, m.rooms[k])

\* lines 218-226, first segment dug for the drawn coin
first_tunnel(m, room, c) ==
    LET new == center(room)
        prev == center(m.rooms[Len(m.rooms)])
    IN  IF c = 1
        THEN apply_horizontal_tunnel(m, prev[1], new[1], prev[2])
        ELSE apply_vertical_tunnel(m, prev[2], new[2], prev[1])

\* second segment dug from the wrong end of the first one
second_tunnel_wrong_end(m, room, c) ==
    LET new == center(room)
        prev == center(m.rooms[Len(m.rooms)])
    IN  IF c = 1
        THEN apply_vertical_tunnel(m, prev[2], new[2], prev[1])
        ELSE apply_horizontal_tunnel(m, prev[1], new[1], prev[2])

\* lines 218-226, second segment
second_tunnel(m, room, c) ==
    LET new == center(room)
        prev == center(m.rooms[Len(m.rooms)])
    IN  IF c = 1
        THEN apply_vertical_tunnel(m, prev[2], new[2], new[1])
        ELSE apply_horizontal_tunnel(m, prev[1], new[1], new[2])

push_room(m, room) == [m EXCEPT !.rooms = Append(m.rooms, room)]

----------------------------------------------------------------------------
(* The generator as a state machine *)

Init ==
    /\ map = NoMap
    /\ pc = "start"
    /\ algo = "none"
    /\ attempts = 0
    /\ new_room = NoRoom
    /\ coin = 0
    /\ args = <<>>
    /\ ret = <<>>

\* Map::new(new_depth)
New ==
    /\ pc = "start"
    /\ \E d \in Depths : map' = Map_new(d)
    /\ pc' = "done"
    /\ algo' = "new"
    /\ UNCHANGED <<attempts, new_room, coin, args, ret>>

\* new_map_all_open, line 181
AllOpenNew ==
    /\ pc = "start"
    /\ \E d \in Depths : map' = Map_new(d)
    /\ pc' = "open_new"
    /\ algo' = "all_open"
    /\ UNCHANGED <<attempts, new_room, coin, args, ret>>

\* new_map_all_open, lines 183-184
AllOpenCarve ==
    /\ pc = "open_new"
    /\ new_room' = Rect_new(0, 0, 78, 48)
    /\ map' = apply_room_to_map(map, new_room')
    /\ pc' = "open_carved"
    /\ UNCHANGED <<algo, attempts, coin, args, ret>>

\* new_map_all_open, lines 185-187
AllOpenPush ==
    /\ pc = "open_carved"
    /\ map' = push_room(map, new_room)
    /\ new_room' = NoRoom
    /\ pc' = "done"
    /\ UNCHANGED <<algo, attempts, coin, args, ret>>

\* new_map_rooms_and_corridors, lines 194-200
RoomsNew ==
    /\ pc = "start"
    /\ \E d \in Depths : map' = new_with_dimensions(GEN_WIDTH, GEN_HEIGHT, d)
    /\ pc' = "draw"
    /\ algo' = "rooms_and_corridors"
    /\ attempts' = 0
    /\ UNCHANGED <<new_room, coin, args, ret>>

\* one iteration whose candidate is rejected (ok = false): nothing is done
Reject ==
    /\ pc = "draw"
    /\ attempts < MAX_ROOMS
    /\ \E cand \in Candidates(map) : ~candidate_ok(map, cand)
    /\ attempts' = attempts + 1
    /\ UNCHANGED <<map, pc, algo, new_room, coin, args, ret>>

\* ok = true: line 215
Carve ==
    /\ pc = "draw"
    /\ attempts < MAX_ROOMS
    /\ \E cand \in Candidates(map) :
        /\ candidate_ok(map, cand)
        /\ new_room' = cand
        /\ map' = apply_room_to_map(map, cand)
    /\ pc' = "carved"
    /\ UNCHANGED <<algo, attempts, coin, args, ret>>

\* map.rooms.is_empty(): no tunnel, line 229
PushFirst ==
    /\ pc = "carved"
    /\ map.rooms = <<>>
    /\ map' = push_room(map, new_room)
    /\ new_room' = NoRoom
    /\ attempts' = attempts + 1
    /\ pc' = "draw"
    /\ UNCHANGED <<algo, coin, args, ret>>

\* lines 218-221 / 224: the coin and the first segment
DigFirst ==
    /\ pc = "carved"
    /\ map.rooms # <<>>
    /\ \E c \in rng_range(0, 2) :
        /\ coin' = c
        /\ map' = first_tunnel(map, new_room, c)
    /\ pc' = "dug"
    /\ UNCHANGED <<algo, attempts, new_room, args, ret>>

\* lines 222 / 225 and 229: the second segment, then the push
DigSecond ==
    /\ pc = "dug"
    /\ map' = push_room(second_tunnel(map, new_room, coin), new_room)
    /\ new_room' = NoRoom
    /\ coin' = 0
    /\ attempts' = attempts + 1
    /\ pc' = "draw"
    /\ UNCHANGED <<algo, args, ret>>

\* the loop is exhausted: line 233
RoomsReturn ==
    /\ pc = "draw"
    /\ attempts = MAX_ROOMS
    /\ pc' = "done"
    /\ UNCHANGED <<map, algo, attempts, new_room, coin, args, ret>>

\* the steps of new_map_rooms_and_corridors
RoomsNext ==
    \/ RoomsNew
    \/ Reject
    \/ Carve
    \/ PushFirst
    \/ DigFirst
    \/ DigSecond
    \/ RoomsReturn

Next ==
    \/ New
    \/ AllOpenNew
    \/ AllOpenCarve
    \/ AllOpenPush
    \/ RoomsNext

Spec == Init /\ [][Next]_vars

----------------------------------------------------------------------------
(* Properties of the generator *)

Range(f) == {f[k] : k \in DOMAIN f}

Cells(r) == Range(spaces(r))

IsBorder(m, x, y) == x = 0 \/ x = m.width - 1 \/ y = 0 \/ y = m.height - 1

TileAt(m, x, y) == m.tiles[(y * m.width) + x]

InRooms == algo = "rooms_and_corridors"

\* C1: every border cell (x = 0, x = width-1, y = 0, y = height-1) is Wall
\* in every state of every entry point: after construction, after each room
\* is carved, after each tunnel segment, and in the returned map.
C1_BorderIsWall ==
    \A x \in 0 .. (map.width - 1), y \in 0 .. (map.height - 1) :
        IsBorder(map, x, y) => TileAt(map, x, y) = Wall

\* a returned rooms-and-corridors map with a room reaching the last
\* interior column and row, a room starting on the first interior row, and
\* a corridor between them
C1_Witness ==
    /\ InRooms /\ pc = "done"
    /\ Len(map.rooms) >= 2
    /\ \E i \in DOMAIN map.rooms :
        /\ map.rooms[i].x2 = map.width - 2
        /\ map.rooms[i].y2 = map.height - 2
    /\ \E i \in DOMAIN map.rooms : map.rooms[i].y1 = 0
    /\ TileAt(map, map.width - 2, map.height - 2) = Floor

\* C2: in the map returned by new_map_rooms_and_corridors no two distinct
\* rooms of map.rooms share an occupied cell.
C2_RoomsDisjoint ==
    (InRooms /\ pc = "done") =>
        \A i, j \in DOMAIN map.rooms :
            i # j => Cells(map.rooms[i]) \cap Cells(map.rooms[j]) = {}

\* C3: new_map_all_open returns an 80 x 50 map with exactly one room, whose
\* tile (x, y) is Floor exactly when 1 <= x <= 78 and 1 <= y <= 48.
C3_AllOpen ==
    (algo = "all_open" /\ pc = "done") =>
        /\ map.width = 80 /\ map.height = 50
        /\ DOMAIN map.tiles = 0 .. (80 * 50 - 1)
        /\ Len(map.rooms) = 1
        /\ \A x \in 0 .. 79, y \in 0 .. 49 :
            (TileAt(map, x, y) = Floor) <=> (1 <= x /\ x <= 78 /\ 1 <= y /\ y <= 48)

C3_Witness ==
    /\ algo = "all_open" /\ pc = "done"
    /\ TileAt(map, 1, 1) = Floor
    /\ TileAt(map, 78, 48) = Floor
    /\ TileAt(map, 79, 49) = Wall

\* the horizontal segment of row y and the vertical segment of column x
\* between two cells are Floor
HFloor(m, xa, xb, y) == \A x \in Min(xa, xb) .. Max(xa, xb) : TileAt(m, x, y) = Floor
VFloor(m, ya, yb, x) == \A y \in Min(ya, yb) .. Max(ya, yb) : TileAt(m, x, y) = Floor

\* an L of Floor cells from a to b: one horizontal and one vertical segment
\* meeting at a corner
LJoined(m, a, b) ==
    \/ HFloor(m, a[1], b[1], a[2]) /\ VFloor(m, a[2], b[2], b[1])
    \/ VFloor(m, a[2], b[2], a[1]) /\ HFloor(m, a[1], b[1], b[2])

\* C8: for every i >= 1 the centers of rooms[i-1] and rooms[i] are Floor and
\* joined by an L-shaped path of Floor cells, whichever way the coin fell
\* (rooms are pushed after both segments, so this holds in every state).
C8_CentersJoined ==
    InRooms =>
        \A i \in 2 .. Len(map.rooms) :
            LET a == center(map.rooms[i - 1])
                b == center(map.rooms[i])
            IN  /\ TileAt(map, a[1], a[2]) = Floor
                /\ TileAt(map, b[1], b[2]) = Floor
                /\ LJoined(map, a, b)

\* a returned map with a full chain in which a corridor left the rooms
C8_Witness ==
    /\ InRooms /\ pc = "done"
    /\ Len(map.rooms) = MAX_ROOMS
    /\ \E x \in 0 .. (map.width - 1), y \in 0 .. (map.height - 1) :
        /\ TileAt(map, x, y) = Floor
        /\ \A i \in DOMAIN map.rooms : <<x, y>> \notin Cells(map.rooms[i])

\* C9: in every step a Floor tile stays Floor (tiles only go Wall -> Floor),
\* and the grid keeps its size once built.
C9_FloorStaysFloor ==
    [][/\ \A i \in DOMAIN map.tiles :
            map.tiles[i] = Floor => (i \in DOMAIN map'.tiles /\ map'.tiles[i] = Floor)
       /\ pc # "start" => DOMAIN map'.tiles = DOMAIN map.tiles]_vars

\* a second room has been carved over Floor cells of the first and both
\* tunnel segments have been dug
C9_Witness ==
    /\ InRooms /\ pc = "draw"
    /\ Len(map.rooms) = 2
    /\ Cells(map.rooms[1]) \cap Cells(map.rooms[2]) # {}

\* steps left before the running entry point returns, at most
Rank ==
    CASE pc = "start"       -> 3 * MAX_ROOMS + 4
      [] pc = "open_new"    -> 2
      [] pc = "open_carved" -> 1
      [] pc = "draw"        -> 3 * (MAX_ROOMS - attempts) + 3
      [] pc = "carved"      -> 3 * (MAX_ROOMS - attempts) + 2
      [] pc = "dug"         -> 3 * (MAX_ROOMS - attempts) + 1
      [] OTHER              -> 0

C10_Bounded ==
    /\ attempts \in 0 .. MAX_ROOMS
    /\ Rank >= 0
    /\ pc \in {"start", "open_new", "open_carved", "draw", "carved", "dug", "done"}
    /\ (pc = "draw" /\ attempts < MAX_ROOMS) => Candidates(map) # {}
    /\ (InRooms /\ pc = "done") =>
            (attempts = MAX_ROOMS /\ Len(map.rooms) \in 1 .. MAX_ROOMS)
    /\ (InRooms /\ attempts >= 1) => Len(map.rooms) >= 1

C10_RejectKeepsMap ==
    (InRooms /\ pc = "draw" /\ pc' = "draw") =>
        (map' = map /\ attempts' = attempts + 1)

\* C10: new_map_rooms_and_corridors always returns, after exactly MAX_ROOMS
\* candidate attempts, a map with between 1 and MAX_ROOMS rooms: no state
\* before the return is stuck (the draws always have an outcome) and every
\* step lowers Rank, which never falls below 0; the first candidate is
\* always accepted, and a rejected candidate changes neither tiles nor
\* rooms.
C10_Terminates ==
    /\ []C10_Bounded
    /\ [][Rank' < Rank /\ C10_RejectKeepsMap]_vars

\* a returned map for which at least one candidate was rejected
C10_Witness ==
    /\ InRooms /\ pc = "done"
    /\ attempts = MAX_ROOMS
    /\ Len(map.rooms) < MAX_ROOMS

----------------------------------------------------------------------------
(* Map::xy_idx on maps of every size up to MaxIdxDim x MaxIdxDim *)

MaxIdxDim == 5

IdxInit ==
    /\ \E w, h \in 1 .. MaxIdxDim : map = new_with_dimensions(w, h, 0)
    /\ pc = "idx_call"
    /\ algo = "xy_idx"
    /\ attempts = 0
    /\ new_room = NoRoom
    /\ coin = 0
    /\ args = <<>>
    /\ ret = <<>>

\* map.xy_idx(x, y) for an in-range pair
IdxCall ==
    /\ pc = "idx_call"
    /\ \E x \in 0 .. (map.width - 1), y \in 0 .. (map.height - 1) :
        /\ args' = <<x, y>>
        /\ ret' = xy_idx(map, x, y)
    /\ pc' = "idx_done"
    /\ UNCHANGED <<map, algo, attempts, new_room, coin>>

IdxNext == IdxCall

IdxSpec == IdxInit /\ [][IdxNext]_vars

\* C6: on 0 <= x < width, 0 <= y < height, xy_idx is a bijection onto
\* [0, width*height): it equals y*width + x, lands in the range, no other
\* in-range pair has the same index, every index of the range is hit, and
\* (idx % width, idx / width) gives (x, y) back.
C6_XyIdxBijection ==
    pc = "idx_done" =>
        LET w == map.width
            h == map.height
            x == args[1]
            y == args[2]
        IN  /\ ret = (y * w) + x
            /\ ret \in 0 .. (w * h - 1)
            /\ <<ret % w, ret \div w>> = <<x, y>>
            /\ \A x2 \in 0 .. (w - 1), y2 \in 0 .. (h - 1) :
                xy_idx(map, x2, y2) = ret => (x2 = x /\ y2 = y)
            /\ \A i \in 0 .. (w * h - 1) :
                \E x2 \in 0 .. (w - 1), y2 \in 0 .. (h - 1) : xy_idx(map, x2, y2) = i

\* the last cell of a map that is wider than high
C6_Witness ==
    /\ pc = "idx_done"
    /\ map.width > map.height /\ map.height > 1
    /\ args = <<map.width - 1, map.height - 1>>
    /\ ret = map.width * map.height - 1

----------------------------------------------------------------------------
(* Room::intersect and the acceptance loop on arbitrary rooms *)

MaxCoord == 2

RectInputs ==
    {Rect_new(x, y, w, h) : x \in 0 .. MaxCoord, y \in 0 .. MaxCoord,
                            w \in 1 .. 2, h \in 1 .. 2}

IntersectInit ==
    /\ map = new_with_dimensions(MaxCoord + 4, MaxCoord + 4, 0)
    /\ pc = "is_call"
    /\ algo = "intersect"
    /\ attempts = 0
    /\ new_room = NoRoom
    /\ coin = 0
    /\ args = <<>>
    /\ ret = <<>>

\* a.intersect(&b) and b.intersect(&a)
IntersectCall ==
    /\ pc = "is_call"
    /\ \E a, b \in RectInputs :
        /\ args' = <<a, b>>
        /\ ret' = <<intersect(a, b), intersect(b, a)>>
    /\ pc' = "is_done"
    /\ UNCHANGED <<map, algo, attempts, new_room, coin>>

\* a room list the generator accepted (one room, or a second one that passed
\* the loop against the first), then map.rs:208-213 for a new candidate
AcceptanceCall ==
    /\ pc = "is_call"
    /\ \E r1, r2, cand \in RectInputs :
        \E n \in 1 .. 2 :
            LET m1 == push_room(map, r1)
                m == IF n = 1 THEN m1 ELSE push_room(m1, r2)
            IN  /\ n = 2 => candidate_ok(m1, r2)
                /\ map' = m
                /\ new_room' = cand
                /\ ret' = candidate_ok(m, cand)
    /\ pc' = "ok_done"
    /\ UNCHANGED <<algo, attempts, coin, args>>

IntersectNext ==
    \/ IntersectCall
    \/ AcceptanceCall

IntersectSpec == IntersectInit /\ [][IntersectNext]_vars

----------------------------------------------------------------------------
(* apply_horizontal_tunnel / apply_vertical_tunnel on arbitrary endpoints *)

MaxTunnelDim == 3

\* an all-Wall map, or one whose interior is already open
TunnelInit ==
    /\ \E w, h \in 1 .. MaxTunnelDim :
        \E open \in BOOLEAN :
            map = IF open
                  THEN apply_room_to_map(new_with_dimensions(w, h, 0),
                                         Rect_new(0, 0, w - 2, h - 2))
                  ELSE new_with_dimensions(w, h, 0)
    /\ pc = "tn_call"
    /\ algo = "tunnel"
    /\ attempts = 0
    /\ new_room = NoRoom
    /\ coin = 0
    /\ args = <<>>
    /\ ret = <<>>

\* map.apply_horizontal_tunnel(x1, x2, y); ret keeps the tiles before the
\* call and the tiles the swapped call gives
HorizontalTunnel ==
    /\ pc = "tn_call"
    /\ \E x1, x2 \in 0 .. map.width, y \in 0 .. map.height :
        /\ args' = <<x1, x2, y>>
        /\ ret' = <<map.tiles, apply_horizontal_tunnel(map, x2, x1, y).tiles>>
        /\ map' = apply_horizontal_tunnel(map, x1, x2, y)
    /\ pc' = "h_done"
    /\ UNCHANGED <<algo, attempts, new_room, coin>>

\* map.apply_vertical_tunnel(y1, y2, x)
VerticalTunnel ==
    /\ pc = "tn_call"
    /\ \E y1, y2 \in 0 .. map.height, x \in 0 .. map.width :
        /\ args' = <<y1, y2, x>>
        /\ ret' = <<map.tiles, apply_vertical_tunnel(map, y2, y1, x).tiles>>
        /\ map' = apply_vertical_tunnel(map, y1, y2, x)
    /\ pc' = "v_done"
    /\ UNCHANGED <<algo, attempts, new_room, coin>>

TunnelNext ==
    \/ HorizontalTunnel
    \/ VerticalTunnel

TunnelSpec == TunnelInit /\ [][TunnelNext]_vars

\* the linear indices of the cells of the segment that lie in the grid
SegmentIndices ==
    LET lo == Min(args[1], args[2])
        hi == Max(args[1], args[2])
        all == IF pc = "h_done"
               THEN {(args[3] * map.width) + x : x \in lo .. hi}
               ELSE {(y * map.width) + args[3] : y \in lo .. hi}
    IN  {i \in all : 0 <= i /\ i < map.width * map.height}

\* C4: after apply_horizontal_tunnel(x1, x2, y) (apply_vertical_tunnel(y1,
\* y2, x)) every cell of the segment whose linear index lies in
\* [0, width*height) is Floor, index 0 included, no other tile has changed,
\* and the call with the endpoints swapped gives the same tiles.
C4_TunnelDigsSegment ==
    pc \in {"h_done", "v_done"} =>
        /\ \A i \in DOMAIN map.tiles :
            map.tiles[i] = IF i \in SegmentIndices THEN Floor ELSE ret[1][i]
        /\ map.tiles = ret[2]

----------------------------------------------------------------------------
(* tests::borders_check on corrupted maps *)

MaxBorderDim == 4
MaxCorrupt == 2

\* new_map_all_open(0) as the corner tests build it
AllOpenMap ==
    LET room == Rect_new(0, 0, 78, 48)
    IN  push_room(apply_room_to_map(Map_new(0), room), room)

\* the maps handed to the oracle: new_map_all_open(0), or an all-Wall map
\* of any size up to MaxBorderDim x MaxBorderDim
BordersInit ==
    /\ \/ map = AllOpenMap /\ algo = "all_open"
       \/ /\ \E w, h \in 1 .. MaxBorderDim : map = new_with_dimensions(w, h, 0)
          /\ algo = "new_with_dimensions"
    /\ pc = "bc_map"
    /\ attempts = 0
    /\ new_room = NoRoom
    /\ coin = 0
    /\ args = <<>>
    /\ ret = <<>>

\* the indices the four corner tests set to Floor (map.rs:70, 79, 89, 99)
CornerTestIndices(m) ==
    LET len == m.width * m.height
    IN  {0, m.width - 1, len - m.width + 1, len - 1}

\* map.tiles[i] = TileType::Floor on new_map_all_open(0), as the tests do
CorruptCorner ==
    /\ pc = "bc_map"
    /\ algo = "all_open"
    /\ attempts = 0
    /\ \E i \in CornerTestIndices(map) :
        map' = [map EXCEPT !.tiles[i] = Floor]
    /\ attempts' = attempts + 1
    /\ UNCHANGED <<pc, algo, new_room, coin, args, ret>>

\* map.tiles[i] = TileType::Floor for any index of a small map
CorruptAny ==
    /\ pc = "bc_map"
    /\ algo = "new_with_dimensions"
    /\ attempts < MaxCorrupt
    /\ \E i \in DOMAIN map.tiles :
        /\ map.tiles[i] = Wall
        /\ map' = [map EXCEPT !.tiles[i] = Floor]
    /\ attempts' = attempts + 1
    /\ UNCHANGED <<pc, algo, new_room, coin, args, ret>>

\* borders_check(map)
BordersCheck ==
    /\ pc = "bc_map"
    /\ ret' = borders_check(map)
    /\ pc' = "bc_done"
    /\ UNCHANGED <<map, algo, attempts, new_room, coin, args>>

BordersNext ==
    \/ CorruptCorner
    \/ CorruptAny
    \/ BordersCheck

BordersSpec == BordersInit /\ [][BordersNext]_vars

\* C7: borders_check returns Err exactly when some tile with x = 0,
\* x = width-1, y = 0 or y = height-1 is not Wall, and Ok otherwise.
C7_OracleExact ==
    pc = "bc_done" =>
        /\ ret \in {"Ok", "Err"}
        /\ (ret = "Err") <=>
            \E x \in 0 .. (map.width - 1), y \in 0 .. (map.height - 1) :
                IsBorder(map, x, y) /\ TileAt(map, x, y) # Wall

\* Err for a map whose only Floor tile is the bottom-left corner, the one
\* border cell the `pt > len - width` disjunct leaves out
C7_Witness ==
    /\ pc = "bc_done"
    /\ ret = "Err"
    /\ map.width > 1 /\ map.height > 1
    /\ \A i \in DOMAIN map.tiles :
        (map.tiles[i] = Floor) <=> (i = map.width * (map.height - 1))

====
